---------------------------- MODULE Spec2Model ----------------------------
(***************************************************************************)
(* Model of garth_mcp_server: the requires_garth_session decorator, the    *)
(* tools user_profile_statistics, get_activities, nightly_sleep, get_gear  *)
(* and a pass-through tool (get_devices), and the helper                   *)
(* remove_keys_if_exists of utils.py.                                      *)
(*                                                                         *)
(* One tool call is in flight at a time (the tools are synchronous         *)
(* functions).  A call is cut into steps at the points where it talks to   *)
(* the outside: reading the environment, garth.client.loads, and every     *)
(* remote request, whose answer is chosen nondeterministically.            *)
(*                                                                         *)
(* Python values: a dict is a function from key strings to values, a list  *)
(* is a sequence, an object is a function from attribute names to values.  *)
(* A float produced by round(x, 2) is kept as an integer number of         *)
(* hundredths.                                                             *)
(***************************************************************************)
EXTENDS Integers, Sequences, FiniteSets, TLC

VARIABLES
    env,        \* value of GARTH_TOKEN in os.environ (Unset when absent)
    session,    \* token held by garth.client (NoSession before any loads)
    pc,         \* position of the call in flight
    tool,       \* name of the tool being called
    args,       \* the caller's arguments
    token,      \* the wrapper's local variable token
    local,      \* the tool body's local variables
    trace,      \* what the call has done so far, oldest first
    outcome,    \* "none", "returned" or "raised"
    result      \* the returned value when outcome = "returned"

vars == <<env, session, pc, tool, args, token, local, trace, outcome, result>>

---------------------------------------------------------------------------
(* Bounds of the model *)

\* longest list a remote answer or a loader returns
MaxLen == 2
\* longest userMetrics list of a statistics answer
MaxMetrics == 2
\* longest keys_to_remove list
MaxKeys == 2

---------------------------------------------------------------------------
(* Python helpers *)

None == "None"
EmptyDict == <<>>

\* d.pop(k) of a dict that has the key k
Pop(d, k) == [x \in (DOMAIN d) \ {k} |-> d[x]]

\* d.pop(k, None) taking some other entry when k is absent, as popitem would
PopDefaultPopitem(d, k) ==
    IF k \in DOMAIN d THEN [x \in (DOMAIN d) \ {k} |-> d[x]]
    ELSE IF DOMAIN d = {} THEN d
    ELSE [x \in (DOMAIN d) \ {CHOOSE y \in DOMAIN d : TRUE} |-> d[x]]

\* d.pop(k, None): no error when k is absent
PopDefault(d, k) == IF k \in DOMAIN d THEN Pop(d, k) ELSE d

\* the set of sequences over S of length at most n
SeqsUpTo(S, n) == UNION {[1..k -> S] : k \in 0..n}

\* Python truthiness of the string os.getenv returns: None and "" are falsy
Unset == "<unset>"
Truthy(tok) == tok # Unset /\ tok # ""

---------------------------------------------------------------------------
(* round(num / den, 2), in hundredths *)

\* The quotient num / den is a double and round() rounds the double, so an
\* exact tie k.xx5 goes the way the double nearest to num / den lies.  For
\* the tie values the model draws (1015 / 1000 and 3654 / 3600, both stored
\* just below 1.015) CPython rounds down.
TiesRoundedUp == {}

\* the quotient cut off after two decimals instead of rounded
Round2Truncated(num, den) == (100 * num) \div den

Round2(num, den) ==
    LET q == (100 * num) \div den
        r == (100 * num) % den
    IN  IF 2 * r < den THEN q
        ELSE IF 2 * r > den THEN q + 1
        ELSE IF <<num, den>> \in TiesRoundedUp THEN q + 1 ELSE q

---------------------------------------------------------------------------
(* JSON values of the remote service, tagged by their Python type *)

I(n) == [t |-> "int", v |-> n]
D(f) == [t |-> "dict", d |-> f]
L(s) == [t |-> "list", l |-> s]

\* a remote request either raises or answers with a JSON value
Raises == [t |-> "raise"]

IsDict(x) == x.t = "dict"
IsList(x) == x.t = "list"

---------------------------------------------------------------------------
(* requires_garth_session *)

MissingTokenMessage ==
    "You must set the GARTH_TOKEN environment variable to use this tool"

NoSession == "<no session>"

\* tokens garth.client.loads accepts, and one it rejects
GoodTokens == {"tokA", "tokB"}
BadTokens == {"malformed"}
EnvValues == {Unset, ""} \cup GoodTokens \cup BadTokens

NoArgs == <<>>
NoLocal == <<>>

ToolNames == {"user_profile_statistics", "get_activities", "nightly_sleep",
              "get_gear", "get_devices"}

ArgsOf(t) ==
    CASE t = "get_activities" ->
            [start : {0, 20}, limit : {20}]
      [] t = "nightly_sleep" ->
            [end_date : {None}, nights : {1}, sleep_movement : BOOLEAN]
      [] OTHER -> {NoArgs}

Init ==
    /\ env \in {Unset, "tokA"}
    /\ session = NoSession
    /\ pc = "idle"
    /\ tool = "none"
    /\ args = NoArgs
    /\ token = Unset
    /\ local = NoLocal
    /\ trace = <<>>
    /\ outcome = "none"
    /\ result = None

\* the process environment changes between calls
SetEnv(v) ==
    /\ pc = "idle"
    /\ env # v
    /\ env' = v
    /\ UNCHANGED <<session, pc, tool, args, token, local, trace, outcome, result>>

\* line 23 written as "token is None": the empty string gets through
TokenMissingNoneOnly(tok) == tok = Unset

\* line 23: not token
TokenMissing(tok) == ~Truthy(tok)

\* line 22 reading the environment only while no session is loaded yet
WrapperCached(t, a) ==
    /\ pc = "idle"
    /\ tool' = t
    /\ args' = a
    /\ token' = IF session # NoSession THEN session ELSE env
    /\ trace' = <<>>
    /\ local' = NoLocal
    /\ IF TokenMissing(token')
       THEN /\ pc' = "done"
            /\ outcome' = "returned"
            /\ result' = MissingTokenMessage
       ELSE /\ pc' = "loads"
            /\ outcome' = "none"
            /\ result' = None
    /\ UNCHANGED <<env, session>>

\* wrapper, lines 22-24: read GARTH_TOKEN, return the message when it is missing
Wrapper(t, a) ==
    /\ pc = "idle"
    /\ tool' = t
    /\ args' = a
    /\ token' = env
    /\ trace' = <<>>
    /\ local' = NoLocal
    /\ IF TokenMissing(env)
       THEN /\ pc' = "done"
            /\ outcome' = "returned"
            /\ result' = MissingTokenMessage
       ELSE /\ pc' = "loads"
            /\ outcome' = "none"
            /\ result' = None
    /\ UNCHANGED <<env, session>>

\* line 25 left out: the body runs on whatever session is there
LoadsSkipped ==
    /\ pc = "loads"
    /\ pc' = "invoke"
    /\ UNCHANGED <<env, session, tool, args, token, local, trace, outcome, result>>

\* line 25 inside try/except: pass: a token that does not load is ignored
LoadsErrorIgnored ==
    /\ pc = "loads"
    /\ IF token \in BadTokens
       THEN /\ pc' = "invoke"
            /\ UNCHANGED <<session, trace, outcome, result>>
       ELSE /\ session' = token
            /\ trace' = Append(trace, <<"loads", token>>)
            /\ pc' = "invoke"
            /\ UNCHANGED <<outcome, result>>
    /\ UNCHANGED <<env, tool, args, token, local>>

\* wrapper, line 25: garth.client.loads(token)
Loads ==
    /\ pc = "loads"
    /\ IF token \in BadTokens
       THEN /\ pc' = "done"
            /\ outcome' = "raised"
            /\ result' = "LoadsError"
            /\ UNCHANGED <<session, trace>>
       ELSE /\ session' = token
            /\ trace' = Append(trace, <<"loads", token>>)
            /\ pc' = "invoke"
            /\ UNCHANGED <<outcome, result>>
    /\ UNCHANGED <<env, tool, args, token, local>>

\* wrapper, line 26: func(*args, **kwargs) binds the caller's arguments
Invoke ==
    /\ pc = "invoke"
    /\ local' = [params |-> args]
    /\ trace' = Append(trace, <<"func", tool>>)
    /\ pc' = "body"
    /\ UNCHANGED <<env, session, tool, args, token, outcome, result>>

\* the exception caught and an empty object returned in its place
RaiseSwallowed(err) ==
    /\ pc' = "done"
    /\ outcome' = "returned"
    /\ result' = EmptyDict

\* the body ends by raising err
Raise(err) ==
    /\ pc' = "done"
    /\ outcome' = "raised"
    /\ result' = err

\* the body, its locals being loc, returns v, and line 26 returns what the
\* body returned
ReturnValue(v, loc) ==
    /\ local' = loc @@ ("return" :> v)
    /\ pc' = "done"
    /\ outcome' = "returned"
    /\ result' = local'["return"]

\* the caller has the outcome; the server waits for the next call
Finish ==
    /\ pc = "done"
    /\ pc' = "idle"
    /\ tool' = "none"
    /\ args' = NoArgs
    /\ token' = Unset
    /\ local' = NoLocal
    /\ trace' = <<>>
    /\ outcome' = "none"
    /\ result' = None
    /\ UNCHANGED <<env, session>>

---------------------------------------------------------------------------
(* user_profile_statistics *)

KmThreshold == 1000
MetersPerKm == 1000
HoursThreshold == 3600
SecondsPerHour == 3600

DisplayNames == {"alice", "bob"}

MetricKeys == {"totalActivities", "totalDistance", "totalDuration",
               "totalCalories", "totalElevationGain"}

\* one entry of userMetrics
MetricEntry(n, dist, dur) ==
    D([totalActivities |-> I(n), totalDistance |-> I(dist),
       totalDuration |-> I(dur), totalCalories |-> I(100 * n),
       totalElevationGain |-> I(10 * n)])

\* first entries the service may send, and what may follow the first entry
FirstEntries ==
    {MetricEntry(n, dist, dur) :
        n \in {1, 2}, dist \in {999, 1000, 1015, 2500}, dur \in {3599, 3600, 3654}}
    \cup {D([totalActivities |-> I(1), totalDistance |-> I(2500)])}
LaterEntry == MetricEntry(9, 7777, 8888)

MetricLists ==
    {<<>>} \cup
    {<<e>> \o [i \in 1..k |-> LaterEntry] :
        e \in FirstEntries, k \in 0..(MaxMetrics - 1)}

\* answers of the two userstats-service requests
StatsAnswers ==
    {Raises, I(0), D(EmptyDict)} \cup {D([userMetrics |-> L(s)]) : s \in MetricLists}

LifetimeKeys == {"totalDistance", "totalSteps", "totalCalories",
                 "totalGoalsMetInDays", "totalActiveDays",
                 "totalWellnessDistance", "totalStepCalories"}

\* answers of the connectLifetimeTotals request
LifetimeAnswers ==
    {Raises, I(0), D([totalDistance |-> I(5)])} \cup
    {D([totalDistance |-> I(dist), totalSteps |-> I(54730927),
        totalCalories |-> I(1250000), totalGoalsMetInDays |-> I(234),
        totalActiveDays |-> I(456), totalWellnessDistance |-> I(well),
        totalStepCalories |-> I(890000)]) :
        dist \in {999, 5432100}, well \in {500, 1234000}}

\* lines 177-178 and 197-198: the assert and data["userMetrics"][0], with the
\* keys lines 180-184 read; "ok" or the exception raised
MetricsError(data) ==
    IF ~IsDict(data) THEN "AssertionError"
    ELSE IF "userMetrics" \notin DOMAIN data.d THEN "KeyError"
    ELSE IF data.d["userMetrics"].l = <<>> THEN "IndexError"
    ELSE IF ~(MetricKeys \subseteq DOMAIN data.d["userMetrics"].l[1].d) THEN "KeyError"
    ELSE "ok"

FirstMetrics(data) == data.d["userMetrics"].l[1].d

\* line 186 with > for >=
ActivitiesKmStrict(activities) ==
    IF activities["total_distance"] > KmThreshold
    THEN activities @@
         ("total_distance_km" :> Round2(activities["total_distance"], MetersPerKm))
    ELSE activities

\* lines 186-187
ActivitiesKm(activities) ==
    IF activities["total_distance"] >= KmThreshold
    THEN activities @@
         ("total_distance_km" :> Round2(activities["total_distance"], MetersPerKm))
    ELSE activities

\* lines 188-191
ActivitiesHours(activities) ==
    IF activities["total_duration"] >= HoursThreshold
    THEN activities @@
         ("total_duration_hours" :> Round2(activities["total_duration"], SecondsPerHour))
    ELSE activities

\* lines 179-191: the current-totals object
Activities(metrics) ==
    ActivitiesHours(ActivitiesKm(
        [total_activities |-> metrics["totalActivities"].v,
         total_distance |-> metrics["totalDistance"].v,
         total_duration |-> metrics["totalDuration"].v,
         total_calories |-> metrics["totalCalories"].v,
         total_elevation_gain |-> metrics["totalElevationGain"].v]))

\* lines 206-209
Last12MonthsKm(totals) ==
    IF totals["total_distance"] >= KmThreshold
    THEN totals @@
         ("total_distance_km" :> Round2(totals["total_distance"], MetersPerKm))
    ELSE totals

\* line 210 with > for >=
Last12MonthsHoursStrict(totals) ==
    IF totals["total_duration"] > HoursThreshold
    THEN totals @@
         ("total_duration_hours" :> Round2(totals["total_duration"], SecondsPerHour))
    ELSE totals

\* lines 210-213
Last12MonthsHours(totals) ==
    IF totals["total_duration"] >= HoursThreshold
    THEN totals @@
         ("total_duration_hours" :> Round2(totals["total_duration"], SecondsPerHour))
    ELSE totals

\* lines 199-213: the last_12_months object
Last12MonthsTotals(prev_metrics) ==
    Last12MonthsHours(Last12MonthsKm(
        [total_activities |-> prev_metrics["totalActivities"].v,
         total_distance |-> prev_metrics["totalDistance"].v,
         total_duration |-> prev_metrics["totalDuration"].v,
         total_calories |-> prev_metrics["totalCalories"].v,
         total_elevation_gain |-> prev_metrics["totalElevationGain"].v]))

\* lines 225-235: the inner lifetime_totals object; both kilometer fields
\* are always computed
LifetimeTotals(lt) ==
    [total_distance |-> lt["totalDistance"].v,
     total_distance_km |-> Round2(lt["totalDistance"].v, MetersPerKm),
     total_steps |-> lt["totalSteps"].v,
     total_calories |-> lt["totalCalories"].v,
     total_goals_met_in_days |-> lt["totalGoalsMetInDays"].v,
     total_active_days |-> lt["totalActiveDays"].v,
     total_wellness_distance |-> lt["totalWellnessDistance"].v,
     total_wellness_distance_km |-> Round2(lt["totalWellnessDistance"].v, MetersPerKm),
     total_step_calories |-> lt["totalStepCalories"].v]

\* lines 216-235 without the try statement: the request's exception ends the call
GuardedLifetimeUnguarded(lt) ==
    IF lt = Raises
    THEN [err |-> "Exception", lifetime_totals |-> EmptyDict]
    ELSE IF ~IsDict(lt)
    THEN [err |-> "AssertionError", lifetime_totals |-> EmptyDict]
    ELSE IF ~(LifetimeKeys \subseteq DOMAIN lt.d)
    THEN [err |-> "KeyError", lifetime_totals |-> EmptyDict]
    ELSE [err |-> "none", lifetime_totals |-> LifetimeTotals(lt.d)]

\* lines 216-235: the try statement; an exception of the request is caught
\* and gives the empty dict, an exception of the else clause is not caught
GuardedLifetime(lt) ==
    IF lt = Raises
    THEN [err |-> "none", lifetime_totals |-> EmptyDict]
    ELSE IF ~IsDict(lt)
    THEN [err |-> "AssertionError", lifetime_totals |-> EmptyDict]
    ELSE IF ~(LifetimeKeys \subseteq DOMAIN lt.d)
    THEN [err |-> "KeyError", lifetime_totals |-> EmptyDict]
    ELSE [err |-> "none", lifetime_totals |-> LifetimeTotals(lt.d)]

\* lines 238-244 with the two period objects exchanged
StatsSwapped(activities, lifetime_totals, last_12_months_totals) ==
    [lifetime_totals |->
        [activities |-> last_12_months_totals, lifetime_totals |-> lifetime_totals],
     last_12_months |-> activities]

\* lines 238-244
Stats(activities, lifetime_totals, last_12_months_totals) ==
    [lifetime_totals |->
        [activities |-> activities, lifetime_totals |-> lifetime_totals],
     last_12_months |-> last_12_months_totals]

\* lines 172-173: garth.UserProfile.get() and its display_name
StatsProfile ==
    /\ pc = "body"
    /\ tool = "user_profile_statistics"
    /\ trace' = Append(trace, <<"UserProfile.get">>)
    /\ \/ /\ Raise("Exception")
          /\ local' = local @@ ("user_profile" :> Raises)
       \/ \E dn \in DisplayNames :
            /\ local' = local @@ ("display_name" :> dn)
            /\ pc' = "statistics"
            /\ UNCHANGED <<outcome, result>>
    /\ UNCHANGED <<env, session, tool, args, token>>

\* lines 176-191: the statistics request and the current-totals object
StatsStatistics ==
    /\ pc = "statistics"
    /\ trace' = Append(trace,
            <<"connectapi", "userstats-service/statistics/", local["display_name"]>>)
    /\ \E data \in StatsAnswers :
         IF data = Raises
         THEN Raise("Exception") /\ local' = local @@ ("data" :> data)
         ELSE IF MetricsError(data) # "ok"
         THEN Raise(MetricsError(data)) /\ local' = local @@ ("data" :> data)
         ELSE /\ local' = local @@ ("data" :> data) @@
                          ("activities" :> Activities(FirstMetrics(data)))
              /\ pc' = "previousDays"
              /\ UNCHANGED <<outcome, result>>
    /\ UNCHANGED <<env, session, tool, args, token>>

\* lines 194-196 asking the endpoint of line 176 a second time
StatsPreviousDaysRepeats ==
    /\ pc = "previousDays"
    /\ trace' = Append(trace,
            <<"connectapi", "userstats-service/statistics/", local["display_name"]>>)
    /\ \E prev_data \in StatsAnswers :
         IF prev_data = Raises
         THEN Raise("Exception") /\ local' = local @@ ("prev_data" :> prev_data)
         ELSE IF MetricsError(prev_data) # "ok"
         THEN Raise(MetricsError(prev_data))
                /\ local' = local @@ ("prev_data" :> prev_data)
         ELSE /\ local' = local @@ ("prev_data" :> prev_data) @@
                          ("last_12_months_totals" :>
                                Last12MonthsTotals(FirstMetrics(prev_data)))
              /\ pc' = "lifetime"
              /\ UNCHANGED <<outcome, result>>
    /\ UNCHANGED <<env, session, tool, args, token>>

\* lines 194-213: the previousDays request and the last_12_months object
StatsPreviousDays ==
    /\ pc = "previousDays"
    /\ trace' = Append(trace,
            <<"connectapi", "userstats-service/statistics/previousDays/",
              local["display_name"]>>)
    /\ \E prev_data \in StatsAnswers :
         IF prev_data = Raises
         THEN Raise("Exception") /\ local' = local @@ ("prev_data" :> prev_data)
         ELSE IF MetricsError(prev_data) # "ok"
         THEN Raise(MetricsError(prev_data))
                /\ local' = local @@ ("prev_data" :> prev_data)
         ELSE /\ local' = local @@ ("prev_data" :> prev_data) @@
                          ("last_12_months_totals" :>
                                Last12MonthsTotals(FirstMetrics(prev_data)))
              /\ pc' = "lifetime"
              /\ UNCHANGED <<outcome, result>>
    /\ UNCHANGED <<env, session, tool, args, token>>

\* lines 216-246: the guarded connectLifetimeTotals request, then the result
StatsLifetime ==
    /\ pc = "lifetime"
    /\ trace' = Append(trace,
            <<"connectapi", "usersummary-service/stats/connectLifetimeTotals/",
              local["display_name"]>>)
    /\ \E lt \in LifetimeAnswers :
         LET guarded == GuardedLifetime(lt)
             loc == local @@ ("lt" :> lt)
         IN  IF guarded.err # "none"
             THEN Raise(guarded.err) /\ local' = loc
             ELSE ReturnValue(Stats(local["activities"], guarded.lifetime_totals,
                                    local["last_12_months_totals"]), loc)
    /\ UNCHANGED <<env, session, tool, args, token>>

---------------------------------------------------------------------------
(* get_activities *)

\* lines 417-421 with the last pop forgotten
StripKeysShort == <<"userRoles", "ownerDisplayName", "ownerProfileImageUrlSmall",
                    "ownerProfileImageUrlMedium">>

\* lines 417-421, in the order the code pops them
StripKeys == <<"userRoles", "ownerDisplayName", "ownerProfileImageUrlSmall",
               "ownerProfileImageUrlMedium", "ownerProfileImageUrlLarge">>

\* the user role and profile image fields of an activity record of the service
OwnerKeys == {"userRoles", "ownerDisplayName", "ownerProfileImageUrlSmall",
              "ownerProfileImageUrlMedium", "ownerProfileImageUrlLarge"}

ActivityIds == {1, 2}

\* an activity record holding the keys of present besides its own data
ActivityRecord(present, id) ==
    D([k \in present \cup {"activityId", "activityName"} |->
        IF k = "activityId" THEN I(id)
        ELSE IF k = "activityName" THEN I(100 + id)
        ELSE I(0)])

\* records with all five keys, with one of them missing, with none of them
ActivityRecords ==
    {ActivityRecord(present, id) :
        present \in {OwnerKeys, {}} \cup {OwnerKeys \ {k} : k \in OwnerKeys},
        id \in ActivityIds}

ActivityAnswers ==
    {Raises, I(0)} \cup {L(s) : s \in SeqsUpTo(ActivityRecords, MaxLen)}

\* lines 417-421 written with pop(key, None): a missing key is passed over
PopKeysTolerant(activity, keys, i) ==
    [ok |-> TRUE,
     d |-> [k \in (DOMAIN activity) \ {keys[j] : j \in i..Len(keys)} |-> activity[k]]]

\* activity.pop(key) for the keys from position i on: the dict as far as it
\* got, and whether a pop raised KeyError
RECURSIVE PopKeys(_, _, _)
PopKeys(activity, keys, i) ==
    IF i > Len(keys) THEN [ok |-> TRUE, d |-> activity]
    ELSE IF keys[i] \notin DOMAIN activity THEN [ok |-> FALSE, d |-> activity]
    ELSE PopKeys(Pop(activity, keys[i]), keys, i + 1)

\* lines 416-421 with the loop left after its first round
StripFromFirstOnly(activities, i) ==
    IF i > Len(activities) THEN [ok |-> TRUE, l |-> activities]
    ELSE LET p == PopKeys(activities[i].d, StripKeys, 1)
         IN  [ok |-> p.ok, l |-> [activities EXCEPT ![i] = D(p.d)]]

\* lines 416-421: the loop over the activities from position i on; the list
\* as the loop left it, and whether it ran to its end
RECURSIVE StripFrom(_, _)
StripFrom(activities, i) ==
    IF i > Len(activities) THEN [ok |-> TRUE, l |-> activities]
    ELSE LET p == PopKeys(activities[i].d, StripKeys, 1)
             next == [activities EXCEPT ![i] = D(p.d)]
         IN  IF p.ok THEN StripFrom(next, i + 1) ELSE [ok |-> FALSE, l |-> next]

StripActivities(activities) == StripFrom(activities, 1)

\* lines 406-423
GetActivities ==
    /\ pc = "body"
    /\ tool = "get_activities"
    /\ trace' = Append(trace,
            <<"connectapi", "activitylist-service/activities/search/activities?",
              local["params"]>>)
    /\ \E activities \in ActivityAnswers :
         IF activities = Raises
         THEN Raise("Exception") /\ UNCHANGED local
         ELSE IF ~IsList(activities)
         THEN Raise("AssertionError") /\ local' = local @@ ("answer" :> activities)
         ELSE LET stripped == StripActivities(activities.l)
                  loc == local @@ ("answer" :> activities) @@
                           ("activities" :> L(stripped.l))
              IN  IF stripped.ok
                  THEN ReturnValue(L(stripped.l), loc)
                  ELSE Raise("KeyError") /\ local' = loc
    /\ UNCHANGED <<env, session, tool, args, token>>

---------------------------------------------------------------------------
(* nightly_sleep *)

\* a SleepData object: its attributes, sleep_movement present or not
SleepRecords ==
    {[daily_sleep_dto |-> id] : id \in {1, 2}} \cup
    {[daily_sleep_dto |-> id, sleep_movement |-> 50 + id] : id \in {1, 2}}

SleepAnswers == SeqsUpTo(SleepRecords, MaxLen)

\* lines 592-593: del night.sleep_movement when the object has it
DropMovement(night) ==
    IF "sleep_movement" \in DOMAIN night THEN Pop(night, "sleep_movement") ELSE night

\* line 590 with the test inverted
SleepResultInverted(sleep_data, sleep_movement) ==
    IF sleep_movement
    THEN [i \in DOMAIN sleep_data |-> DropMovement(sleep_data[i])]
    ELSE sleep_data

\* lines 590-594
SleepResult(sleep_data, sleep_movement) ==
    IF ~sleep_movement
    THEN [i \in DOMAIN sleep_data |-> DropMovement(sleep_data[i])]
    ELSE sleep_data

\* lines 589-594
NightlySleep ==
    /\ pc = "body"
    /\ tool = "nightly_sleep"
    /\ trace' = Append(trace, <<"SleepData.list", local["params"]>>)
    /\ \/ Raise("Exception") /\ UNCHANGED local
       \/ \E sleep_data \in SleepAnswers :
            ReturnValue(SleepResult(sleep_data, local["params"].sleep_movement),
                        local @@ ("loaded" :> sleep_data))
    /\ UNCHANGED <<env, session, tool, args, token>>

---------------------------------------------------------------------------
(* get_gear and get_devices *)

ProfileIds == {101, 202}

\* what a request whose answer is passed through may answer
PlainAnswers == {Raises, I(0), L(<<>>), L(<<D([uuid |-> I(1)])>>)}

\* line 570
GearProfile ==
    /\ pc = "body"
    /\ tool = "get_gear"
    /\ trace' = Append(trace, <<"UserProfile.get">>)
    /\ \/ /\ Raise("Exception")
          /\ UNCHANGED local
       \/ \E id \in ProfileIds :
            /\ local' = local @@ ("profile_id" :> id)
            /\ pc' = "gear"
            /\ UNCHANGED <<outcome, result>>
    /\ UNCHANGED <<env, session, tool, args, token>>

\* lines 571-573 asking with a fixed profile id instead of the fetched one
GearRequestFixedId ==
    /\ pc = "gear"
    /\ trace' = Append(trace,
            <<"connectapi", "gear-service/gear/filterGear?userProfilePk=", 101>>)
    /\ \E answer \in PlainAnswers :
         IF answer = Raises
         THEN Raise("Exception") /\ local' = local @@ ("answer" :> answer)
         ELSE ReturnValue(answer, local @@ ("answer" :> answer))
    /\ UNCHANGED <<env, session, tool, args, token>>

\* lines 571-573
GearRequest ==
    /\ pc = "gear"
    /\ trace' = Append(trace,
            <<"connectapi", "gear-service/gear/filterGear?userProfilePk=",
              local["profile_id"]>>)
    /\ \E answer \in PlainAnswers :
         IF answer = Raises
         THEN Raise("Exception") /\ local' = local @@ ("answer" :> answer)
         ELSE ReturnValue(answer, local @@ ("answer" :> answer))
    /\ UNCHANGED <<env, session, tool, args, token>>

\* line 541
GetDevices ==
    /\ pc = "body"
    /\ tool = "get_devices"
    /\ trace' = Append(trace,
            <<"connectapi", "device-service/deviceregistration/devices">>)
    /\ \E answer \in PlainAnswers :
         IF answer = Raises
         THEN Raise("Exception") /\ local' = local @@ ("answer" :> answer)
         ELSE ReturnValue(answer, local @@ ("answer" :> answer))
    /\ UNCHANGED <<env, session, tool, args, token>>

---------------------------------------------------------------------------
(* the tools of the server and the tools the test suite calls *)

\* every function under @server.tool() in __init__.py
RegisteredTools ==
    {"user_profile", "user_profile_statistics", "weekly_intensity_minutes",
     "daily_body_battery", "daily_hydration", "daily_steps", "weekly_steps",
     "daily_hrv", "hrv_data", "daily_sleep", "get_activities",
     "get_activities_by_date", "get_activity_details", "get_activity_splits",
     "get_activity_weather", "get_respiration_data", "get_spo2_data",
     "get_blood_pressure", "get_devices", "get_device_settings", "get_gear",
     "nightly_sleep", "daily_stress", "weekly_stress",
     "daily_intensity_minutes", "monthly_activity_summary", "snapshot"}

\* every name tests/test_server.py passes to call_tool
TestedTools ==
    {"user_profile", "user_settings", "weekly_intensity_minutes",
     "daily_body_battery", "daily_hydration", "daily_steps", "weekly_steps",
     "daily_hrv", "hrv_data", "daily_sleep", "nightly_sleep", "daily_stress",
     "weekly_stress", "daily_intensity_minutes", "get_activities",
     "get_activities_by_date", "get_activity_details", "get_activity_splits",
     "get_activity_weather", "get_body_composition", "get_respiration_data",
     "get_spo2_data", "get_blood_pressure", "get_devices",
     "get_device_settings", "get_gear", "get_gear_stats",
     "get_connectapi_endpoint", "monthly_activity_summary", "snapshot"}

\* call_tool with a name no function is registered under: the server has
\* nothing to run and the call ends in an error, whatever the session
CallUnregistered(t) ==
    /\ pc = "idle"
    /\ t \notin RegisteredTools
    /\ tool' = t
    /\ args' = NoArgs
    /\ token' = Unset
    /\ local' = NoLocal
    /\ trace' = <<>>
    /\ pc' = "done"
    /\ outcome' = "raised"
    /\ result' = "UnknownTool"
    /\ UNCHANGED <<env, session>>

Next ==
    \/ \E v \in EnvValues : SetEnv(v)
    \/ \E t \in TestedTools : CallUnregistered(t)
    \/ \E t \in ToolNames : \E a \in ArgsOf(t) : Wrapper(t, a)
    \/ Loads
    \/ Invoke
    \/ StatsProfile
    \/ StatsStatistics
    \/ StatsPreviousDays
    \/ StatsLifetime
    \/ GetActivities
    \/ NightlySleep
    \/ GearProfile
    \/ GearRequest
    \/ GetDevices
    \/ Finish

Spec == Init /\ [][Next]_vars

---------------------------------------------------------------------------
(* remove_keys_if_exists, utils.py *)

UtilKeys == {"a", "b", "z"}

\* dicts whose keys a and b are absent, a number, or a nested dict
UtilDicts ==
    {D(f) : f \in UNION {[ks -> {I(1), D([a |-> I(2)])}] : ks \in SUBSET {"a", "b"}}}

\* list items: dicts, a number, a nested list
UtilItems == UtilDicts \cup {I(7), L(<<D([a |-> I(1)])>>)}

UtilData ==
    UtilDicts \cup {I(7)} \cup {L(s) : s \in SeqsUpTo(UtilItems, MaxLen)}

\* the loop over keys_to_remove left after its first round
PopAllFirstOnly(d, keys_to_remove, i) ==
    IF Len(keys_to_remove) = 0 THEN d ELSE PopDefault(d, keys_to_remove[1])

\* lines 25-26 and 31-32: pop(key, None) for every key from position i on
RECURSIVE PopAll(_, _, _)
PopAll(d, keys_to_remove, i) ==
    IF i > Len(keys_to_remove) THEN d
    ELSE PopAll(PopDefault(d, keys_to_remove[i]), keys_to_remove, i + 1)

\* the removal carried into nested dicts and lists
RECURSIVE RemoveKeysDeep(_, _)
RemoveKeysDeep(data, keys_to_remove) ==
    IF IsDict(data)
    THEN D([k \in (DOMAIN data.d) \
                    {keys_to_remove[j] : j \in DOMAIN keys_to_remove} |->
                RemoveKeysDeep(data.d[k], keys_to_remove)])
    ELSE IF IsList(data)
    THEN L([i \in DOMAIN data.l |-> RemoveKeysDeep(data.l[i], keys_to_remove)])
    ELSE data

\* lines 24-35
remove_keys_if_exists(data, keys_to_remove) ==
    IF IsDict(data)
    THEN D(PopAll(data.d, keys_to_remove, 1))
    ELSE IF IsList(data)
    THEN L([i \in DOMAIN data.l |->
                IF IsDict(data.l[i])
                THEN D(PopAll(data.l[i].d, keys_to_remove, 1))
                ELSE data.l[i]])
    ELSE data

\* the helper's inputs
InitUtil ==
    /\ env = Unset
    /\ session = NoSession
    /\ pc = "util"
    /\ tool = "remove_keys_if_exists"
    /\ args \in [data : UtilData, keys_to_remove : SeqsUpTo(UtilKeys, MaxKeys)]
    /\ token = Unset
    /\ local = NoLocal
    /\ trace = <<>>
    /\ outcome = "none"
    /\ result = None

\* one application of the helper
UtilApply ==
    /\ pc = "util"
    /\ pc' = "util_done"
    /\ outcome' = "returned"
    /\ result' = remove_keys_if_exists(args.data, args.keys_to_remove)
    /\ UNCHANGED <<env, session, tool, args, token, local, trace>>

\* the helper applied once more, to what it returned, with the same keys
UtilReapply ==
    /\ pc = "util_done"
    /\ pc' = "util_again"
    /\ local' = [again |-> remove_keys_if_exists(result, args.keys_to_remove)]
    /\ UNCHANGED <<env, session, tool, args, token, trace, outcome, result>>

NextUtil == UtilApply \/ UtilReapply

SpecUtil == InitUtil /\ [][NextUtil]_vars

---------------------------------------------------------------------------
(* Properties *)

\* a call of user_profile_statistics has returned its statistics object
StatsReturned ==
    pc = "done" /\ tool = "user_profile_statistics" /\ outcome = "returned"
                /\ Truthy(token)

\* C1: a call of a tool wrapped by requires_garth_session, made while
\* GARTH_TOKEN is unset or empty, returns exactly the missing-token message
\* as a normal result, in one step from the call's start: nothing is loaded
\* into the session and the body does not run.
C1_MissingTokenMessage ==
    [][(pc = "idle" /\ pc' # "idle" /\ tool' \in RegisteredTools
            /\ env \in {Unset, ""}) =>
            /\ pc' = "done"
            /\ outcome' = "returned"
            /\ result' =
                 "You must set the GARTH_TOKEN environment variable to use this tool"
            /\ trace' = <<>>
            /\ session' = session]_vars

C1_Witness ==
    /\ pc = "done" /\ token = "" /\ outcome = "returned"
    /\ result = MissingTokenMessage /\ tool = "get_activities"
    /\ session = "tokA"

\* C2: with a non-empty GARTH_TOKEN, whatever a call does starts with the one
\* load of exactly that token; the body is then invoked exactly once, with
\* the caller's arguments, every remote operation comes after the load, and
\* what the call returns is what the body returned.  (A load that raises
\* ends the call before the body.)
C2_LoadThenBody ==
    (pc \notin {"idle", "loads"} /\ Truthy(token)
        /\ ~(pc = "done" /\ outcome = "raised" /\ trace = <<>>)) =>
        /\ Len(trace) >= 1
        /\ trace[1][1] = "loads" /\ trace[1][2] = token
        /\ session = token
        /\ \A i \in 2..Len(trace) : trace[i][1] # "loads"
        /\ pc # "invoke" =>
            /\ Len(trace) >= 2
            /\ trace[2] = <<"func", tool>>
            /\ \A i \in 3..Len(trace) : trace[i][1] # "func"
            /\ local["params"] = args
        /\ outcome = "returned" => result = local["return"]

C2_Witness ==
    /\ pc = "done" /\ tool = "get_activities" /\ outcome = "returned"
    /\ token = "tokB" /\ args.start = 20 /\ Len(result.l) = 2
    /\ Len(trace) = 3 /\ trace[3][1] = "connectapi"

\* C3: in a returned statistics object, the current-totals object and the
\* last_12_months object each have total_distance, and have
\* total_distance_km exactly when their total_distance is at least 1000.
C3_DistanceKm ==
    StatsReturned =>
        \A totals \in {result["lifetime_totals"]["activities"],
                       result["last_12_months"]} :
            /\ "total_distance" \in DOMAIN totals
            /\ "total_distance_km" \in DOMAIN totals
                    <=> totals["total_distance"] >= 1000

C3_Witness ==
    /\ StatsReturned
    /\ result["lifetime_totals"]["activities"]["total_distance"] = 1000
    /\ "total_distance_km" \in DOMAIN result["lifetime_totals"]["activities"]
    /\ result["last_12_months"]["total_distance"] = 999
    /\ "total_distance_km" \notin DOMAIN result["last_12_months"]

\* C4: in a returned statistics object, the current-totals object and the
\* last_12_months object each have total_duration, and have
\* total_duration_hours exactly when their total_duration is at least 3600.
C4_DurationHours ==
    StatsReturned =>
        \A totals \in {result["lifetime_totals"]["activities"],
                       result["last_12_months"]} :
            /\ "total_duration" \in DOMAIN totals
            /\ "total_duration_hours" \in DOMAIN totals
                    <=> totals["total_duration"] >= 3600

C4_Witness ==
    /\ StatsReturned
    /\ result["last_12_months"]["total_duration"] = 3600
    /\ "total_duration_hours" \in DOMAIN result["last_12_months"]
    /\ result["lifetime_totals"]["activities"]["total_duration"] = 3599
    /\ "total_duration_hours" \notin DOMAIN result["lifetime_totals"]["activities"]

\* C5: in a returned statistics object every kilometer field stands only
\* next to a meter value of at least 1000, in the two period objects and in
\* the inner lifetime_totals object (total_distance_km and
\* total_wellness_distance_km).
C5_EveryKmAboveThreshold ==
    StatsReturned =>
        \A totals \in {result["lifetime_totals"]["activities"],
                       result["last_12_months"],
                       result["lifetime_totals"]["lifetime_totals"]} :
            /\ "total_distance_km" \in DOMAIN totals
                    => totals["total_distance"] >= 1000
            /\ "total_wellness_distance_km" \in DOMAIN totals
                    => totals["total_wellness_distance"] >= 1000

\* C6: when the connectLifetimeTotals request raises, the call still returns:
\* the inner lifetime_totals is the empty object, and the two period objects
\* are those the first two answers give, as when the request succeeds.
C6_LifetimeFailureTolerated ==
    (pc = "done" /\ tool = "user_profile_statistics" /\ "lt" \in DOMAIN local
        /\ local["lt"] = Raises) =>
        /\ outcome = "returned"
        /\ result["lifetime_totals"]["lifetime_totals"] = <<>>
        /\ DOMAIN result["lifetime_totals"]["lifetime_totals"] = {}
        /\ result["lifetime_totals"]["activities"] = local["activities"]
        /\ result["last_12_months"] = local["last_12_months_totals"]
        /\ \A lt \in LifetimeAnswers :
             GuardedLifetime(lt).err = "none" =>
                LET ok == Stats(local["activities"],
                                GuardedLifetime(lt).lifetime_totals,
                                local["last_12_months_totals"])
                IN  /\ ok["lifetime_totals"]["activities"]
                            = result["lifetime_totals"]["activities"]
                    /\ ok["last_12_months"] = result["last_12_months"]

C6_Witness ==
    /\ pc = "done" /\ tool = "user_profile_statistics"
    /\ "lt" \in DOMAIN local /\ local["lt"] = Raises
    /\ outcome = "returned"
    /\ result["lifetime_totals"]["lifetime_totals"] = <<>>
    /\ result["last_12_months"]["total_distance"] = 2500

\* the fields a period object takes over from a userMetrics entry
PeriodFields ==
    [total_activities |-> "totalActivities", total_distance |-> "totalDistance",
     total_duration |-> "totalDuration", total_calories |-> "totalCalories",
     total_elevation_gain |-> "totalElevationGain"]

\* the fields the inner lifetime_totals takes over from connectLifetimeTotals
LifetimeFields ==
    [total_distance |-> "totalDistance", total_steps |-> "totalSteps",
     total_calories |-> "totalCalories",
     total_goals_met_in_days |-> "totalGoalsMetInDays",
     total_active_days |-> "totalActiveDays",
     total_wellness_distance |-> "totalWellnessDistance",
     total_step_calories |-> "totalStepCalories"]

\* obj holds the fields of from, taken over unchanged, and besides them
\* only derived fields
BuiltFrom(obj, fields, from, derived) ==
    /\ DOMAIN fields \subseteq DOMAIN obj
    /\ DOMAIN obj \subseteq DOMAIN fields \cup derived
    /\ \A k \in DOMAIN fields : obj[k] = from[fields[k]].v

\* C7: a returned statistics object has exactly the keys last_12_months and
\* lifetime_totals, and lifetime_totals exactly activities and
\* lifetime_totals; last_12_months holds the fields of the first userMetrics
\* entry of the previousDays answer, activities those of the first
\* userMetrics entry of the statistics answer, the inner lifetime_totals
\* those of the connectLifetimeTotals answer (or nothing), and each holds
\* nothing else but its own derived fields.
C7_ThreeAnswersKeptApart ==
    StatsReturned =>
        /\ DOMAIN result = {"last_12_months", "lifetime_totals"}
        /\ DOMAIN result["lifetime_totals"] = {"activities", "lifetime_totals"}
        /\ BuiltFrom(result["last_12_months"], PeriodFields,
                     local["prev_data"].d["userMetrics"].l[1].d,
                     {"total_distance_km", "total_duration_hours"})
        /\ BuiltFrom(result["lifetime_totals"]["activities"], PeriodFields,
                     local["data"].d["userMetrics"].l[1].d,
                     {"total_distance_km", "total_duration_hours"})
        /\ IF local["lt"] = Raises
           THEN result["lifetime_totals"]["lifetime_totals"] = <<>>
           ELSE BuiltFrom(result["lifetime_totals"]["lifetime_totals"],
                          LifetimeFields, local["lt"].d,
                          {"total_distance_km", "total_wellness_distance_km"})

C7_Witness ==
    /\ StatsReturned
    /\ Len(local["data"].d["userMetrics"].l) = 2
    /\ Len(local["prev_data"].d["userMetrics"].l) = 2
    /\ local["lt"] # Raises
    /\ result["last_12_months"]["total_activities"] = 2
    /\ result["lifetime_totals"]["activities"]["total_activities"] = 1
    /\ result["last_12_months"]["total_distance"] = 2500
    /\ result["lifetime_totals"]["activities"]["total_distance"] = 999
    /\ result["lifetime_totals"]["lifetime_totals"]["total_distance"] = 5432100

\* the answer get_activities got is a list whose records all hold the five
\* user role and profile image keys
AllOwnerKeysPresent ==
    /\ pc = "done" /\ tool = "get_activities" /\ "answer" \in DOMAIN local
    /\ IsList(local["answer"])
    /\ \A i \in DOMAIN local["answer"].l :
            {"userRoles", "ownerDisplayName", "ownerProfileImageUrlSmall",
             "ownerProfileImageUrlMedium", "ownerProfileImageUrlLarge"}
                \subseteq DOMAIN local["answer"].l[i].d

\* C8: when every record of the remote list holds the five keys,
\* get_activities returns a list of the same length and order in which no
\* record holds any of the five keys and every other key keeps its value.
C8_OwnerKeysStripped ==
    AllOwnerKeysPresent =>
        /\ outcome = "returned"
        /\ IsList(result)
        /\ Len(result.l) = Len(local["answer"].l)
        /\ \A i \in DOMAIN result.l :
            LET before == local["answer"].l[i].d
                after == result.l[i].d
            IN  /\ DOMAIN after = DOMAIN before \
                        {"userRoles", "ownerDisplayName",
                         "ownerProfileImageUrlSmall",
                         "ownerProfileImageUrlMedium",
                         "ownerProfileImageUrlLarge"}
                /\ \A k \in DOMAIN after : after[k] = before[k]

C8_Witness ==
    /\ AllOwnerKeysPresent
    /\ outcome = "returned"
    /\ Len(result.l) = 2
    /\ result.l[1].d["activityId"] = I(2)
    /\ result.l[2].d["activityId"] = I(1)
    /\ DOMAIN result.l[1].d = {"activityId", "activityName"}

\* C9: nightly_sleep returns the loader's records in their number and
\* order; with sleep_movement false no returned record has the attribute
\* sleep_movement and every other attribute is as loaded (a record without
\* it is no error); with sleep_movement true the records are as loaded.
C9_SleepMovement ==
    (pc = "done" /\ tool = "nightly_sleep" /\ "loaded" \in DOMAIN local) =>
        /\ outcome = "returned"
        /\ Len(result) = Len(local["loaded"])
        /\ IF args.sleep_movement
           THEN result = local["loaded"]
           ELSE \A i \in DOMAIN result :
                    /\ DOMAIN result[i] = DOMAIN local["loaded"][i] \ {"sleep_movement"}
                    /\ \A a \in DOMAIN result[i] : result[i][a] = local["loaded"][i][a]

C9_Witness ==
    /\ pc = "done" /\ tool = "nightly_sleep" /\ "loaded" \in DOMAIN local
    /\ ~args.sleep_movement
    /\ outcome = "returned"
    /\ Len(local["loaded"]) = 2
    /\ "sleep_movement" \in DOMAIN local["loaded"][1]
    /\ "sleep_movement" \notin DOMAIN local["loaded"][2]
    /\ result[1] = [daily_sleep_dto |-> 2]

\* the set of the keys of a key list
KeySet(keys) == {keys[i] : i \in DOMAIN keys}

\* after is the dict before without the keys of keys, nothing else changed
Removed(before, after, keys) ==
    /\ IsDict(after)
    /\ DOMAIN after.d = DOMAIN before.d \ KeySet(keys)
    /\ \A k \in DOMAIN after.d : after.d[k] = before.d[k]

\* C10: remove_keys_if_exists applied to a dict, or to a list of dicts,
\* returns the data with every key of keys_to_remove gone from every dict and
\* every other key kept with its value; a key that is absent is no error.
C10_KeysRemoved ==
    pc = "util_done" =>
        /\ outcome = "returned"
        /\ IsDict(args.data) => Removed(args.data, result, args.keys_to_remove)
        /\ (IsList(args.data) /\ \A i \in DOMAIN args.data.l : IsDict(args.data.l[i])) =>
            /\ IsList(result)
            /\ Len(result.l) = Len(args.data.l)
            /\ \A i \in DOMAIN result.l :
                    Removed(args.data.l[i], result.l[i], args.keys_to_remove)

C10_Witness ==
    /\ pc = "util_done" /\ outcome = "returned"
    /\ args.keys_to_remove = <<"z", "a">>
    /\ IsList(args.data) /\ Len(args.data.l) = 2
    /\ args.data.l[1] = D([a |-> I(1), b |-> D([a |-> I(2)])])
    /\ args.data.l[2] = D([b |-> I(1)])
    /\ result = L(<<D([b |-> D([a |-> I(2)])]), D([b |-> I(1)])>>)

\* C11: every tool name the test suite calls is registered, so that a call
\* of it never ends in the server's unknown-tool error; user_settings,
\* get_body_composition, get_gear_stats and get_connectapi_endpoint are
\* among them.
C11_TestedToolsRegistered ==
    (pc = "done" /\ tool \in TestedTools) =>
        /\ tool \in RegisteredTools
        /\ ~(outcome = "raised" /\ result = "UnknownTool")

\* the remote operations of a successful user_profile_statistics call for
\* the display name dn, in their order
StatsOperations(dn) ==
    << <<"UserProfile.get">>,
       <<"connectapi", "userstats-service/statistics/", dn>>,
       <<"connectapi", "userstats-service/statistics/previousDays/", dn>>,
       <<"connectapi", "usersummary-service/stats/connectLifetimeTotals/", dn>> >>

\* C12: a call of user_profile_statistics does its remote operations in one
\* order: the profile fetch, the statistics request, the previousDays
\* request, the connectLifetimeTotals request, each once and each request
\* with the display name the profile fetch of this call gave; a call that
\* returned has done all four.
C12_StatsOrder ==
    (tool = "user_profile_statistics" /\ Len(trace) >= 3) =>
        /\ Len(trace) <= 6
        /\ trace[3] = <<"UserProfile.get">>
        /\ \A i \in 4..Len(trace) :
                trace[i] = StatsOperations(local["display_name"])[i - 2]
        /\ outcome = "returned" => Len(trace) = 6

C12_Witness ==
    /\ StatsReturned
    /\ local["display_name"] = "bob"
    /\ trace[6] = <<"connectapi",
                    "usersummary-service/stats/connectLifetimeTotals/", "bob">>
    /\ local["lt"] # Raises

\* what the named request of the call in flight gave is no dictionary: it
\* raised, or answered something else
NoDictFrom(name) ==
    name \in DOMAIN local /\ ~IsDict(local[name])

\* C13: when the profile fetch raises, or the statistics or the previousDays
\* request raises or answers something that is not a dictionary, the call
\* ends in an error: nothing is returned and no later request is made.
C13_FirstCallsUnguarded ==
    (pc = "done" /\ tool = "user_profile_statistics") =>
        /\ NoDictFrom("user_profile") =>
                /\ outcome = "raised" /\ "return" \notin DOMAIN local
                /\ Len(trace) = 3
        /\ NoDictFrom("data") =>
                /\ outcome = "raised" /\ "return" \notin DOMAIN local
                /\ Len(trace) = 4
        /\ NoDictFrom("prev_data") =>
                /\ outcome = "raised" /\ "return" \notin DOMAIN local
                /\ Len(trace) = 5

C13_Witness ==
    /\ pc = "done" /\ tool = "user_profile_statistics"
    /\ NoDictFrom("prev_data") /\ local["prev_data"] = I(0)
    /\ outcome = "raised" /\ result = "AssertionError"
    /\ Len(trace) = 5
    /\ "activities" \in DOMAIN local

\* the five keys in the order get_activities removes them
OwnerKeyOrder ==
    <<"userRoles", "ownerDisplayName", "ownerProfileImageUrlSmall",
      "ownerProfileImageUrlMedium", "ownerProfileImageUrlLarge">>

\* the positions of the records of the answer that lack one of the five keys
Lacking ==
    {i \in DOMAIN local["answer"].l :
        \E n \in 1..5 : OwnerKeyOrder[n] \notin DOMAIN local["answer"].l[i].d}

\* the answer get_activities got is a list with a record lacking a key
SomeOwnerKeyMissing ==
    /\ pc = "done" /\ tool = "get_activities" /\ "answer" \in DOMAIN local
    /\ IsList(local["answer"])
    /\ Lacking # {}

\* C14: when a record of the remote list lacks one of the five keys,
\* get_activities ends in an error and returns no list; by then the records
\* before the first such record have lost the five keys, that record has
\* lost the keys that come before its first missing one, and the rest of
\* the list is as the service sent it.
C14_MissingKeyFails ==
    SomeOwnerKeyMissing =>
        LET j == CHOOSE i \in Lacking : \A x \in Lacking : i <= x
            before == local["answer"].l
            after == local["activities"].l
            m == CHOOSE n \in 1..5 :
                    /\ OwnerKeyOrder[n] \notin DOMAIN before[j].d
                    /\ \A x \in 1..(n - 1) : OwnerKeyOrder[x] \in DOMAIN before[j].d
        IN  /\ outcome = "raised"
            /\ result = "KeyError"
            /\ "return" \notin DOMAIN local
            /\ Len(after) = Len(before)
            /\ \A i \in 1..(j - 1) :
                    DOMAIN after[i].d =
                        DOMAIN before[i].d \ {OwnerKeyOrder[n] : n \in 1..5}
            /\ DOMAIN after[j].d =
                    DOMAIN before[j].d \ {OwnerKeyOrder[n] : n \in 1..(m - 1)}
            /\ \A i \in (j + 1)..Len(before) : after[i] = before[i]

C14_Witness ==
    /\ SomeOwnerKeyMissing
    /\ Len(local["answer"].l) = 2
    /\ Lacking = {2}
    /\ "ownerProfileImageUrlSmall" \notin DOMAIN local["answer"].l[2].d
    /\ outcome = "raised"
    /\ DOMAIN local["activities"].l[1].d = {"activityId", "activityName"}
    /\ DOMAIN local["activities"].l[2].d =
            {"activityId", "activityName", "ownerProfileImageUrlMedium",
             "ownerProfileImageUrlLarge"}

\* C15: the credential check keeps nothing between calls.  Whatever session
\* earlier calls left, a call reads GARTH_TOKEN as it is when the call
\* starts: unset or empty gives the missing-token message and leaves the
\* session alone, any other value goes on to the session load, and a load
\* that succeeds loads that value; the value does not change during a call.
C15_CredentialCheckStateless ==
    [][/\ (pc = "idle" /\ pc' # "idle" /\ tool' \in ToolNames) =>
            /\ token' = env
            /\ IF env \in {Unset, ""}
               THEN /\ pc' = "done" /\ outcome' = "returned"
                    /\ result' = MissingTokenMessage
                    /\ session' = session
               ELSE /\ pc' = "loads" /\ outcome' = "none"
                    /\ session' = session
       /\ pc = "loads" =>
            /\ token = env
            /\ pc' = "invoke" =>
                    session' = env /\ trace' = << <<"loads", env>> >>
       /\ pc # "idle" => env' = env]_vars

C15_Witness ==
    /\ pc = "done" /\ token = Unset /\ env = Unset /\ tool = "get_devices"
    /\ session = "tokB"
    /\ outcome = "returned" /\ result = MissingTokenMessage

\* C16: when GARTH_TOKEN is non-empty but loading it raises, the call ends
\* in that error, not in the missing-token message; the body is not entered
\* and no remote operation is made.
C16_LoadFailureEndsCall ==
    (pc \notin {"idle", "loads"} /\ token \in BadTokens) =>
        /\ pc = "done"
        /\ outcome = "raised"
        /\ result = "LoadsError"
        /\ trace = <<>>
        /\ local = NoLocal

C16_Witness ==
    /\ pc = "done" /\ token = "malformed" /\ tool = "user_profile_statistics"
    /\ outcome = "raised" /\ result = "LoadsError" /\ trace = <<>>
    /\ session = "tokA"

\* C17: remove_keys_if_exists is idempotent and does not depend on the order
\* of two removals: applied again to its result with the same keys it gives
\* that result, and for every other key list k2, removing the keys and then
\* k2 gives the same data as removing k2 and then the keys.
C17_IdempotentAndCommuting ==
    /\ pc = "util_again" => local["again"] = result
    /\ pc = "util_done" =>
        \A k2 \in SeqsUpTo(UtilKeys, MaxKeys) :
            remove_keys_if_exists(result, k2) =
                remove_keys_if_exists(remove_keys_if_exists(args.data, k2),
                                      args.keys_to_remove)

C17_Witness ==
    /\ pc = "util_again"
    /\ args.keys_to_remove = <<"b", "a">>
    /\ args.data = L(<<D([a |-> I(1), b |-> I(1)]), D([a |-> D([a |-> I(2)])])>>)
    /\ result = L(<<D(<<>>), D(<<>>)>>)
    /\ local["again"] = result

\* C18: remove_keys_if_exists touches top-level dictionaries only.  Data that
\* is neither a dict nor a list comes back unchanged; a list keeps its
\* length and order and its items that are not dicts; and the value kept
\* under a key is unchanged, also when it is a dict or a list holding a key
\* of keys_to_remove.
C18_OnlyTopLevelDicts ==
    pc = "util_done" =>
        /\ (~IsDict(args.data) /\ ~IsList(args.data)) => result = args.data
        /\ IsDict(args.data) =>
                /\ IsDict(result)
                /\ \A k \in DOMAIN result.d : result.d[k] = args.data.d[k]
        /\ IsList(args.data) =>
                /\ IsList(result)
                /\ Len(result.l) = Len(args.data.l)
                /\ \A i \in DOMAIN args.data.l :
                        IF IsDict(args.data.l[i])
                        THEN /\ IsDict(result.l[i])
                             /\ \A k \in DOMAIN result.l[i].d :
                                    result.l[i].d[k] = args.data.l[i].d[k]
                        ELSE result.l[i] = args.data.l[i]

C18_Witness ==
    /\ pc = "util_done"
    /\ args.keys_to_remove = <<"a">>
    /\ args.data = L(<<L(<<D([a |-> I(1)])>>),
                       D([a |-> I(1), b |-> D([a |-> I(2)])])>>)
    /\ result = L(<<L(<<D([a |-> I(1)])>>), D([b |-> D([a |-> I(2)])])>>)

\* get_activities has ended on an answer that is a list
ActivitiesListAnswered ==
    /\ pc = "done" /\ tool = "get_activities" /\ "answer" \in DOMAIN local
    /\ IsList(local["answer"])

\* C19: on a remote list whose records all hold the five keys,
\* get_activities returns what remove_keys_if_exists gives for that list
\* and the five keys; on a list with a record lacking a key the two differ:
\* get_activities ends in an error, the helper gives the list without the
\* keys.
C19_InlineStripIsHelper ==
    ActivitiesListAnswered =>
        LET helped == remove_keys_if_exists(local["answer"], OwnerKeyOrder)
        IN  IF Lacking = {}
            THEN outcome = "returned" /\ result = helped
            ELSE /\ outcome = "raised"
                 /\ IsList(helped)
                 /\ Len(helped.l) = Len(local["answer"].l)
                 /\ \A i \in DOMAIN helped.l :
                        DOMAIN helped.l[i].d = {"activityId", "activityName"}

C19_Witness ==
    /\ ActivitiesListAnswered
    /\ Lacking = {}
    /\ Len(local["answer"].l) = 2
    /\ outcome = "returned"
    /\ result = L(<<D([activityId |-> I(1), activityName |-> I(101)]),
                    D([activityId |-> I(2), activityName |-> I(102)])>>)

\* hundredths is num / den rounded to two decimals: no number of hundredths
\* lies nearer to the quotient
RoundedQuotient(hundredths, num, den) ==
    LET diff == 100 * num - den * hundredths
    IN  2 * (IF diff < 0 THEN -diff ELSE diff) <= den

\* the derived field of obj, when obj has it, is its source field divided by
\* den and rounded to two decimals
DerivedFrom(obj, derived, source, den) ==
    derived \in DOMAIN obj => RoundedQuotient(obj[derived], obj[source], den)

\* C20: every derived field of a returned statistics object is its source
\* value divided by the unit factor and rounded to two decimals:
\* total_distance_km and total_wellness_distance_km are meters / 1000,
\* total_duration_hours is seconds / 3600; the meter and second values
\* beside them are those of the remote answers.
C20_DerivedValues ==
    StatsReturned =>
        LET current == result["lifetime_totals"]["activities"]
            last12 == result["last_12_months"]
            lifetime == result["lifetime_totals"]["lifetime_totals"]
            data == local["data"].d["userMetrics"].l[1].d
            prev_data == local["prev_data"].d["userMetrics"].l[1].d
        IN  /\ \A obj \in {current, last12} :
                /\ DerivedFrom(obj, "total_distance_km", "total_distance", 1000)
                /\ DerivedFrom(obj, "total_duration_hours", "total_duration", 3600)
            /\ DerivedFrom(lifetime, "total_distance_km", "total_distance", 1000)
            /\ DerivedFrom(lifetime, "total_wellness_distance_km",
                           "total_wellness_distance", 1000)
            /\ current["total_distance"] = data["totalDistance"].v
            /\ current["total_duration"] = data["totalDuration"].v
            /\ last12["total_distance"] = prev_data["totalDistance"].v
            /\ last12["total_duration"] = prev_data["totalDuration"].v
            /\ local["lt"] # Raises =>
                /\ lifetime["total_distance"] = local["lt"].d["totalDistance"].v
                /\ lifetime["total_wellness_distance"] =
                        local["lt"].d["totalWellnessDistance"].v

C20_Witness ==
    /\ StatsReturned
    /\ local["lt"] # Raises
    /\ result["lifetime_totals"]["activities"]["total_distance"] = 2500
    /\ result["lifetime_totals"]["activities"]["total_distance_km"] = 250
    /\ result["last_12_months"]["total_duration"] = 3654
    /\ result["last_12_months"]["total_duration_hours"] = 101
    /\ result["lifetime_totals"]["lifetime_totals"]["total_distance"] = 999
    /\ result["lifetime_totals"]["lifetime_totals"]["total_distance_km"] = 100
    /\ result["lifetime_totals"]["lifetime_totals"]["total_wellness_distance_km"]
            = 123400

\* C21: get_gear fetches the user profile first and then makes its one gear
\* request, with the profile_id that fetch gave in this call; what the
\* request answers is returned unchanged; when the profile fetch fails the
\* call ends in an error and no gear request is made.
C21_GearAfterProfile ==
    (tool = "get_gear" /\ Len(trace) >= 3) =>
        /\ trace[3] = <<"UserProfile.get">>
        /\ Len(trace) <= 4
        /\ Len(trace) = 4 =>
                /\ "profile_id" \in DOMAIN local
                /\ trace[4][1] = "connectapi"
                /\ trace[4][2] = "gear-service/gear/filterGear?userProfilePk="
                /\ trace[4][3] = local["profile_id"]
        /\ outcome = "returned" =>
                /\ Len(trace) = 4
                /\ local["answer"] # Raises
                /\ result = local["answer"]
        /\ (pc = "done" /\ "profile_id" \notin DOMAIN local) =>
                /\ outcome = "raised"
                /\ Len(trace) = 3

C21_Witness ==
    /\ pc = "done" /\ tool = "get_gear" /\ outcome = "returned"
    /\ Len(trace) = 4
    /\ local["profile_id"] = 202
    /\ trace[4][3] = 202
    /\ result = L(<<D([uuid |-> I(1)])>>)

=============================================================================
